---- MODULE Spec2Model ----
(***************************************************************************)
(* Model of src/hawk.c: the timing model (seek, return-to-zero, rotation,  *)
(* wait-for-sector) and the track codec of the Hawk drive emulation.       *)
(*                                                                         *)
(* hawk.h and scheduler.h are not part of the sources at hand.  The        *)
(* format constants they define are given small values here, and the      *)
(* scheduler is modelled from its description: schedule_event enqueues a   *)
(* one-shot firing of the event, which is later delivered exactly once.    *)
(***************************************************************************)
EXTENDS Integers, Sequences, FiniteSets, TLC

(***************************************************************************)
(* Bounds of the model.                                                    *)
(***************************************************************************)
\* The clock (get_current_time) runs from 0 to MaxTime.
MaxTime == 3
\* At most MaxPending firings of the seek event are outstanding at once.
MaxPending == 2
\* hawk_read_bits is followed while the cursor is less than MaxOverrun
\* cells past the end of the track buffer.
MaxOverrun == 2
\* The bit-stream steps of BitsSpec write within the first MaxWrite cells.
MaxWrite == 4

\* The drive units attached (struct hawk_unit, unit_num).
Units == {0, 1}
\* seek_event.unit / rotation_event.unit before the first assignment
\* (static storage, zero-initialised).
NULL == -1

(***************************************************************************)
(* Format constants of hawk.h, scaled down.                                *)
(***************************************************************************)
HAWK_SECTS_PER_TRK == 2
HAWK_SECTOR_BYTES == 1
HAWK_GAP_BITS == 2
HAWK_SYNC_BITS == 2
HAWK_NUM_CYLINDERS == 2
HAWK_SECTOR_NS == 2
\* gap, sync, address, gap, sync, data, crc, trailer
HAWK_RAW_SECTOR_BITS ==
    HAWK_GAP_BITS + HAWK_SYNC_BITS + 32 + HAWK_GAP_BITS + HAWK_SYNC_BITS
    + HAWK_SECTOR_BYTES * 8 + 16 + (HAWK_GAP_BITS \div 2)
HAWK_RAW_TRACK_BITS == HAWK_SECTS_PER_TRK * HAWK_RAW_SECTOR_BITS
HAWK_ROTATION_NS == HAWK_SECTOR_NS * HAWK_SECTS_PER_TRK
HAWK_BIT_NS == HAWK_RAW_TRACK_BITS \div HAWK_ROTATION_NS
\* scheduler.h
ONE_MILISECOND_NS == 1000000
\* 7.5 * ONE_MILISECOND_NS and 500 * ONE_MILISECOND_NS
SEEK_DELAY_NS == (75 * ONE_MILISECOND_NS) \div 10
SEEK_ERROR_DELAY_NS == 500 * ONE_MILISECOND_NS

\* The heads of a cylinder: one bit of the sector address (head << 4).
Heads == 0..1
\* Cylinders a caller may ask for: the valid ones and one past the end.
CylInputs == 0..HAWK_NUM_CYLINDERS
Sectors == 0..(HAWK_SECTS_PER_TRK - 1)
\* Sector indexes a caller may wait for: the valid ones and one past the end.
SectorInputs == 0..HAWK_SECTS_PER_TRK
\* Outcome of the backing store for one hawk_buffer_track call: -1 when
\* lseek fails, s in Sectors when the read of sector s is short, and
\* HAWK_SECTS_PER_TRK when every read succeeds.
IoOutcomes == -1..HAWK_SECTS_PER_TRK

VARIABLES
    unit,             \* unit[u]: the fields of struct hawk_unit
    seek_event,       \* static struct seek_event_t seek_event
    rotation_event,   \* static struct rotation_event_t rotation_event
    seek_scheduled,   \* scheduler: seek_scheduled[u] firings of seek_event
                      \* are outstanding from schedule_event calls made by
                      \* hawk_seek on unit u
    rot_scheduled,    \* scheduler: the outstanding firings of
                      \* rotation_event, each [unit, fire_at], in the
                      \* order of the schedule_event calls
    now,              \* get_current_time()
    aborted,          \* an assert failed: the process is gone
    lastOp            \* the last operation or callback that ran

vars == <<unit, seek_event, rotation_event, seek_scheduled, rot_scheduled,
          now, aborted, lastOp>>

\* Times a caller may pass to hawk_update and hawk_remaining_bits: the
\* current time or a time one rotation later.
UpdateTimes == {now, now + HAWK_ROTATION_NS}

(***************************************************************************)
(* C integer helpers.                                                      *)
(***************************************************************************)
RECURSIVE BitOr(_, _)
BitOr(a, b) ==
    IF a = 0 THEN b
    ELSE IF b = 0 THEN a
    ELSE (IF a % 2 = 1 \/ b % 2 = 1 THEN 1 ELSE 0)
         + 2 * BitOr(a \div 2, b \div 2)

RECURSIVE Pow2(_)
Pow2(n) == IF n = 0 THEN 1 ELSE 2 * Pow2(n - 1)

Shl(a, n) == a * Pow2(n)

(***************************************************************************)
(* The backing store of a unit: a flat image of bytes, never written by    *)
(* this file.                                                              *)
(***************************************************************************)
StoreByte(u, off) == (37 * off + 11 * u + 5) % 256

(***************************************************************************)
(* current_track_data, an array of HAWK_RAW_TRACK_BITS one-bit cells, is   *)
(* held as the set of the indexes of the cells that are 1.                 *)
(***************************************************************************)
TrackCells == 0..(HAWK_RAW_TRACK_BITS - 1)

Cell(data, i) == IF i \in data THEN 1 ELSE 0

\* data with the cells of "cells" set to bit
StoreCells(data, cells, bit) ==
    IF bit = 1 THEN data \cup (cells \cap TrackCells) ELSE data \ cells

(***************************************************************************)
(* Bit-stream primitives on a unit record r.                               *)
(***************************************************************************)
\* hawk_set_bits: while (count--) current_track_data[data_ptr++] = val & 1
hawk_set_bits(r, count, val) ==
    [r EXCEPT
        !.current_track_data =
            StoreCells(r.current_track_data,
                       r.data_ptr..(r.data_ptr + count - 1), val % 2),
        !.data_ptr = r.data_ptr + count]

\* hawk_write_bits, the loop as written: for each byte, shift runs 7..1;
\* "if (count--) return" leaves as soon as count is nonzero before the
\* decrement, and otherwise one bit is stored and the cursor advances.
RECURSIVE WriteBitsLoop(_, _, _, _, _)
WriteBitsLoop(r, count, data, idx, shift) ==
    IF shift = 0 THEN WriteBitsLoop(r, count, data, idx + 1, 7)
    ELSE IF count # 0 THEN r
    ELSE LET bit == (data[idx] \div Pow2(shift)) % 2
             r2 == [r EXCEPT
                      !.current_track_data =
                          StoreCells(r.current_track_data, {r.data_ptr}, bit),
                      !.data_ptr = r.data_ptr + 1]
         IN WriteBitsLoop(r2, count - 1, data, idx, shift - 1)

hawk_write_bits(r, count, data) == WriteBitsLoop(r, count, data, 1, 7)

\* hawk_rewind: the cursor moves back, with one wrap when it gets negative
hawk_rewind(r, count) ==
    LET p == r.data_ptr - count
    IN [r EXCEPT !.data_ptr = IF p < 0 THEN p + HAWK_RAW_TRACK_BITS ELSE p]

\* hawk_read_bits, the loop as written: for each byte, shift runs 7..1; a
\* cell is read and the cursor advances, and "if (--count)" stores the
\* byte and leaves as soon as count is nonzero after the decrement.  A
\* read outside the array yields oob[n], n the number of the read.  The
\* result is [r, dest]: the unit and the bytes stored to dest.
RECURSIVE ReadBitsLoop(_, _, _, _, _, _, _)
ReadBitsLoop(r, count, dest, byte, shift, n, oob) ==
    IF shift = 0 THEN ReadBitsLoop(r, count, Append(dest, byte), 0, 7, n, oob)
    ELSE LET bit == IF r.data_ptr \in TrackCells
                    THEN Cell(r.current_track_data, r.data_ptr)
                    ELSE oob[n]
             byte2 == BitOr(byte, Shl(bit, shift))
             r2 == [r EXCEPT !.data_ptr = r.data_ptr + 1]
         IN IF count - 1 # 0
            THEN [r |-> r2, dest |-> Append(dest, byte2)]
            ELSE ReadBitsLoop(r2, count - 1, dest, byte2, shift - 1,
                              n + 1, oob)

hawk_read_bits(r, count, oob) == ReadBitsLoop(r, count, <<>>, 0, 7, 1, oob)

\* What a read outside current_track_data can yield, for the two reads a
\* call makes at most.
OobReads == [1..2 -> {0, 1}]

(***************************************************************************)
(* hawk_buffer_track: encode the track (cyl, head) of unit u into the      *)
(* unit record r.  io is the outcome of the backing store.  The result is  *)
(* [ok, r]: the return value and the unit as the call leaves it.           *)
(***************************************************************************)
AddrData(cyl, head, sector) ==
    LET addr == BitOr(BitOr(Shl(cyl, 8), Shl(head, 4)), sector) % 65536
        check_word == 65535 - addr
    IN << (addr \div 256) % 256, addr % 256,
          (check_word \div 256) % 256, check_word % 256 >>

SectorData(u, cyl, head, sector) ==
    LET offset == BitOr(Shl(cyl, 5), Shl(head, 4)) * HAWK_SECTOR_BYTES
    IN [k \in 1..HAWK_SECTOR_BYTES |->
           StoreByte(u, offset + sector * HAWK_SECTOR_BYTES + (k - 1))]

RECURSIVE BufferSectors(_, _, _, _, _, _)
BufferSectors(r, u, cyl, head, io, sector) ==
    IF sector >= HAWK_SECTS_PER_TRK THEN [ok |-> 1, r |-> r]
    ELSE
      LET r0 == [r EXCEPT !.data_ptr = sector * HAWK_RAW_SECTOR_BITS]
          r1 == hawk_set_bits(r0, HAWK_GAP_BITS, 0)
          r2 == hawk_set_bits(r1, HAWK_SYNC_BITS - 1, 0)
          r3 == hawk_set_bits(r2, 1, 1)
          r4 == hawk_write_bits(r3, 32, AddrData(cyl, head, sector))
          r5 == hawk_set_bits(r4, HAWK_GAP_BITS, 0)
          r6 == hawk_set_bits(r5, HAWK_SYNC_BITS - 1, 0)
          r7 == hawk_set_bits(r6, 1, 1)
      IN IF io = sector THEN [ok |-> 0, r |-> r7]
         ELSE
           LET r8 == hawk_write_bits(r7, HAWK_SECTOR_BYTES * 8,
                                     SectorData(u, cyl, head, sector))
               r9 == hawk_write_bits(r8, 16, <<204, 204>>)
               r10 == hawk_set_bits(r9, HAWK_GAP_BITS \div 2, 0)
           IN BufferSectors(r10, u, cyl, head, io, sector + 1)

hawk_buffer_track(r, u, cyl, head, io) ==
    IF io = -1 THEN [ok |-> 0, r |-> r]
    ELSE BufferSectors(r, u, cyl, head, io, 0)

(***************************************************************************)
(* The record of the last operation.                                       *)
(***************************************************************************)
Op(name, u) ==
    [op |-> name, unit |-> u, res |-> "", issuer |-> NULL,
     cyl |-> -1, head |-> -1,
     count |-> -1, bits |-> <<>>, dest |-> <<>>, mark |-> -1]

\* hawk_seek(u, cyl, head) by the path it took; a call that returned at
\* once because the unit was seeking is recorded without its arguments.
SeekOp(name, u, cyl, head, res) ==
    IF res = "noop" THEN [Op(name, u) EXCEPT !.res = res]
    ELSE [Op(name, u) EXCEPT !.res = res, !.cyl = cyl, !.head = head]

(***************************************************************************)
(* Init: units as created at attach time, nothing scheduled.               *)
(***************************************************************************)
NewUnit(u) ==
    [unit_num |-> u,
     seeking |-> 0, on_cyl |-> 0, addr_ack |-> 0, addr_int |-> 0,
     seek_error |-> 0, fault |-> 0, current_track |-> 0,
     head_pos |-> 0, sector_addr |-> 0, rotation_offset |-> u,
     data_ptr |-> 0,
     current_track_data |-> {}]

Init ==
    /\ unit = [u \in Units |-> NewUnit(u)]
    /\ seek_event = [unit |-> NULL, seek_error |-> 0, delta_ns |-> 0]
    /\ rotation_event = [unit |-> NULL, in_process |-> 0, delta_ns |-> 0]
    /\ seek_scheduled = [u \in Units |-> 0]
    /\ rot_scheduled = <<>>
    /\ now = 0
    /\ aborted = FALSE
    /\ lastOp = Op("init", NULL)

(***************************************************************************)
(* hawk_seek on unit record r of unit u, with the seek event ev.  The      *)
(* result is [r, ev, scheduled, res]: the unit and the event as the call   *)
(* leaves them, whether schedule_event was called, and the path taken.     *)
(* The local "offset" of lines 124-125 is never used.                      *)
(***************************************************************************)
\* Mutant of hawk_seek: the test of seeking is not there
hawk_seek_unguarded(r, ev, u, cyl, head, io) ==
    LET r1 == [r EXCEPT !.seeking = 1, !.addr_ack = 0, !.addr_int = 0,
                        !.current_track = BitOr(Shl(cyl, 1), head),
                        !.on_cyl = 0]
    IN IF cyl >= HAWK_NUM_CYLINDERS
       THEN [r |-> [r1 EXCEPT !.addr_int = 1], ev |-> ev,
             scheduled |-> 0, res |-> "addr_int"]
       ELSE [r |-> [r1 EXCEPT !.addr_ack = 1],
             ev |-> [ev EXCEPT !.delta_ns = SEEK_DELAY_NS, !.unit = u,
                               !.seek_error = 0],
             scheduled |-> 1, res |-> "ok"]

hawk_seek_body(r, ev, u, cyl, head, io) ==
    IF r.seeking # 0
    THEN [r |-> r, ev |-> ev, scheduled |-> 0, res |-> "noop"]
    ELSE
      LET r1 == [r EXCEPT !.seeking = 1, !.addr_ack = 0, !.addr_int = 0,
                          !.current_track = BitOr(Shl(cyl, 1), head),
                          !.on_cyl = 0]
      IN IF cyl >= HAWK_NUM_CYLINDERS
         THEN [r |-> [r1 EXCEPT !.addr_int = 1], ev |-> ev,
               scheduled |-> 0, res |-> "addr_int"]
         ELSE
           LET ev1 == [ev EXCEPT !.delta_ns = SEEK_DELAY_NS, !.unit = u,
                                 !.seek_error = 0]
               b == hawk_buffer_track(r1, u, cyl, head, io)
               ev2 == IF b.ok = 0
                      THEN [ev1 EXCEPT !.seek_error = 1,
                                       !.delta_ns = SEEK_ERROR_DELAY_NS]
                      ELSE ev1
           IN [r |-> [b.r EXCEPT !.addr_ack = 1], ev |-> ev2,
               scheduled |-> 1,
               res |-> IF b.ok = 0 THEN "seek_error" ELSE "ok"]

\* hawk_rtz, lines 161-163: the fields cleared before hawk_seek(unit, 0, 0)
hawk_rtz_clear(r) == [r EXCEPT !.seek_error = 0, !.fault = 0, !.seeking = 0]

\* Mutants of hawk_seek_callback: on_cyl is set on a clean seek only;
\* seek_error is copied from the event whatever it holds.
hawk_seek_callback_no_on_cyl(r, ev) ==
    IF ev.seek_error # 0
    THEN [r EXCEPT !.seek_error = ev.seek_error, !.seeking = 0]
    ELSE [r EXCEPT !.on_cyl = 1, !.seeking = 0]

hawk_seek_callback_copies_error(r, ev) ==
    [r EXCEPT !.seek_error = ev.seek_error, !.on_cyl = 1, !.seeking = 0]

\* Mutant of hawk_seek_callback: seeking is left as it is
hawk_seek_callback_keeps_seeking(r, ev) ==
    LET r1 == IF ev.seek_error # 0
              THEN [r EXCEPT !.seek_error = ev.seek_error] ELSE r
    IN [r1 EXCEPT !.on_cyl = 1]

\* hawk_seek_callback on the unit record r the event ev points to
hawk_seek_callback_body(r, ev) ==
    LET r1 == IF ev.seek_error # 0
              THEN [r EXCEPT !.seek_error = ev.seek_error] ELSE r
    IN [r1 EXCEPT !.on_cyl = 1, !.seeking = 0]

\* The unit a firing of the seek event is applied to: seek_event.unit
SeekCallbackUnit(ev) == ev.unit

\* Mutant of the rotation: the phase is not wrapped
Rotation_unwrapped(r, t) == t + r.rotation_offset

\* rotation of unit record r at time t (lines 169 and 198)
Rotation(r, t) == (t + r.rotation_offset) % HAWK_ROTATION_NS

\* hawk_update
hawk_update_body(r, t) ==
    [r EXCEPT !.head_pos = Rotation(r, t) * HAWK_BIT_NS,
              !.sector_addr = Rotation(r, t) \div HAWK_SECTOR_NS]

\* the value hawk_remaining_bits returns, from the unit it has updated
hawk_remaining_bits_ret(r) == r.head_pos - r.data_ptr

\* Mutant of the delay: a delay of zero also gets a full rotation added
WaitDelta_wraps_zero(r, t, sector) ==
    LET desired_rotation == HAWK_SECTOR_NS * sector
        delta == desired_rotation - Rotation(r, t)
    IN IF delta <= 0 THEN delta + HAWK_ROTATION_NS ELSE delta

\* hawk_wait_sector, lines 197-203: the delay until the target sector
WaitDelta(r, t, sector) ==
    LET desired_rotation == HAWK_SECTOR_NS * sector
        delta == desired_rotation - Rotation(r, t)
    IN IF delta < 0 THEN delta + HAWK_ROTATION_NS ELSE delta

\* Mutant of the assert: it is not there
rotation_assert_absent(ev) == TRUE

\* hawk_wait_sector, line 205: assert(rotation_event.in_process == 0)
rotation_assert(ev) == ev.in_process = 0

\* Mutant of hawk_rotation_event_cb: the rotation is not recomputed
hawk_rotation_event_cb_stale(r, t) == [r EXCEPT !.data_ptr = r.head_pos]

\* hawk_rotation_event_cb on the unit record r the event points to
hawk_rotation_event_cb_body(r, t) ==
    LET r1 == hawk_update_body(r, t)
    IN [r1 EXCEPT !.data_ptr = r1.head_pos]

(***************************************************************************)
(* The scheduler: schedule_event adds one outstanding firing.              *)
(***************************************************************************)
SeekOutstanding ==
    LET RECURSIVE Sum(_)
        Sum(S) == IF S = {} THEN 0
                  ELSE LET x == CHOOSE y \in S : TRUE
                       IN seek_scheduled[x] + Sum(S \ {x})
    IN Sum(Units)

schedule_seek_event(u) == [seek_scheduled EXCEPT ![u] = @ + 1]

schedule_rotation_event(u, delta) ==
    Append(rot_scheduled, [unit |-> u, fire_at |-> now + delta])

\* s without its k-th element
RemoveAt(s, k) ==
    [j \in 1..(Len(s) - 1) |-> IF j < k THEN s[j] ELSE s[j + 1]]

(***************************************************************************)
(* Actions.                                                                *)
(***************************************************************************)
HawkSeek(u, cyl, head, io) ==
    /\ ~aborted
    /\ LET e == hawk_seek_body(unit[u], seek_event, u, cyl, head, io)
       IN /\ e.scheduled = 1 => SeekOutstanding < MaxPending
          /\ unit' = [unit EXCEPT ![u] = e.r]
          /\ seek_event' = e.ev
          /\ seek_scheduled' = IF e.scheduled = 1
                               THEN schedule_seek_event(u)
                               ELSE seek_scheduled
          /\ lastOp' = SeekOp("hawk_seek", u, cyl, head, e.res)
    /\ UNCHANGED <<rotation_event, rot_scheduled, now, aborted>>

HawkRtz(u, io) ==
    /\ ~aborted
    /\ LET e == hawk_seek_body(hawk_rtz_clear(unit[u]), seek_event,
                               u, 0, 0, io)
       IN /\ e.scheduled = 1 => SeekOutstanding < MaxPending
          /\ unit' = [unit EXCEPT ![u] = e.r]
          /\ seek_event' = e.ev
          /\ seek_scheduled' = IF e.scheduled = 1
                               THEN schedule_seek_event(u)
                               ELSE seek_scheduled
          /\ lastOp' = SeekOp("hawk_rtz", u, 0, 0, e.res)
    /\ UNCHANGED <<rotation_event, rot_scheduled, now, aborted>>

\* The scheduler delivers a firing of the seek event that hawk_seek on
\* unit i asked for; dsk_hawk_changed(unit_num) is recorded in lastOp.unit.
SeekEventFires(i) ==
    /\ ~aborted
    /\ seek_scheduled[i] > 0
    /\ LET t == SeekCallbackUnit(seek_event)
       IN /\ unit' = [unit EXCEPT
                         ![t] = hawk_seek_callback_body(unit[t], seek_event)]
          /\ lastOp' = [Op("hawk_seek_callback", unit[t].unit_num) EXCEPT
                           !.issuer = i]
    /\ seek_scheduled' = [seek_scheduled EXCEPT ![i] = @ - 1]
    /\ UNCHANGED <<seek_event, rotation_event, rot_scheduled, now, aborted>>

HawkUpdate(u, t) ==
    /\ ~aborted
    /\ unit' = [unit EXCEPT ![u] = hawk_update_body(unit[u], t)]
    /\ lastOp' = Op("hawk_update", u)
    /\ UNCHANGED <<seek_event, rotation_event, seek_scheduled, rot_scheduled,
                   now, aborted>>

HawkRemainingBits(u, t) ==
    /\ ~aborted
    /\ unit' = [unit EXCEPT ![u] = hawk_update_body(unit[u], t)]
    /\ lastOp' = Op("hawk_remaining_bits", u)
    /\ UNCHANGED <<seek_event, rotation_event, seek_scheduled, rot_scheduled,
                   now, aborted>>

\* hawk_wait_sector: the delay is computed first, then the assert decides.
HawkWaitSector(u, sector) ==
    /\ ~aborted
    /\ LET delta == WaitDelta(unit[u], now, sector)
       IN IF ~rotation_assert(rotation_event)
          THEN /\ aborted' = TRUE
               /\ lastOp' = [Op("hawk_wait_sector", u) EXCEPT
                                !.res = "abort"]
               /\ UNCHANGED <<rotation_event, rot_scheduled>>
          ELSE /\ rotation_event' = [unit |-> u, in_process |-> 1,
                                     delta_ns |-> delta]
               /\ rot_scheduled' = schedule_rotation_event(u, delta)
               /\ lastOp' = [Op("hawk_wait_sector", u) EXCEPT
                                !.res = "armed"]
               /\ UNCHANGED aborted
    /\ UNCHANGED <<unit, seek_event, seek_scheduled, now>>

\* The scheduler delivers the k-th outstanding firing of the rotation
\* event, no earlier than asked for.
RotationEventFires(k) ==
    /\ ~aborted
    /\ k \in DOMAIN rot_scheduled
    /\ now >= rot_scheduled[k].fire_at
    /\ rot_scheduled' = RemoveAt(rot_scheduled, k)
    /\ rotation_event' = [rotation_event EXCEPT !.in_process = 0]
    /\ LET t == rotation_event.unit
       IN /\ unit' = [unit EXCEPT
                         ![t] = hawk_rotation_event_cb_body(unit[t], now)]
          /\ lastOp' = [Op("hawk_rotation_event_cb", unit[t].unit_num) EXCEPT
                           !.issuer = rot_scheduled[k].unit]
    /\ UNCHANGED <<seek_event, seek_scheduled, now, aborted>>

\* The clock advances.
Tick ==
    /\ ~aborted
    /\ now < MaxTime
    /\ now' = now + 1
    /\ UNCHANGED <<unit, seek_event, rotation_event, seek_scheduled,
                   rot_scheduled, aborted, lastOp>>

HawkRewind(u, count) ==
    /\ ~aborted
    /\ unit' = [unit EXCEPT ![u] = hawk_rewind(unit[u], count)]
    /\ lastOp' =
          LET wrote == /\ lastOp.op \in {"hawk_set_bits", "hawk_write_bits"}
                       /\ lastOp.unit = u
                       /\ lastOp.count = count
          IN [Op("hawk_rewind", u) EXCEPT
                 !.count = count,
                 !.bits = IF wrote THEN lastOp.bits ELSE <<>>,
                 !.mark = IF wrote THEN lastOp.mark ELSE -1]
    /\ UNCHANGED <<seek_event, rotation_event, seek_scheduled, rot_scheduled,
                   now, aborted>>

HawkReadBits(u, count, oob) ==
    /\ ~aborted
    /\ unit[u].data_ptr < HAWK_RAW_TRACK_BITS + MaxOverrun
    /\ LET e == hawk_read_bits(unit[u], count, oob)
       IN /\ unit' = [unit EXCEPT ![u] = e.r]
          /\ lastOp' = [Op("hawk_read_bits", u) EXCEPT
                           !.count = count, !.dest = e.dest]
    /\ UNCHANGED <<seek_event, rotation_event, seek_scheduled, rot_scheduled,
                   now, aborted>>

\* The first count bits of the bytes of data, most significant bit first
DataBits(data, count) ==
    [k \in 1..count |->
        (data[((k - 1) \div 8) + 1] \div Pow2(7 - ((k - 1) % 8))) % 2]

\* One call of hawk_set_bits, as hawk_buffer_track makes them.  lastOp
\* keeps the bits handed over and the cursor the call ends on.
HawkSetBits(u, count, val) ==
    /\ ~aborted
    /\ unit[u].data_ptr + count <= MaxWrite
    /\ unit' = [unit EXCEPT ![u] = hawk_set_bits(unit[u], count, val)]
    /\ lastOp' = [Op("hawk_set_bits", u) EXCEPT
                     !.count = count,
                     !.bits = [k \in 1..count |-> val % 2],
                     !.mark = unit'[u].data_ptr]
    /\ UNCHANGED <<seek_event, rotation_event, seek_scheduled, rot_scheduled,
                   now, aborted>>

\* One call of hawk_write_bits, as hawk_buffer_track makes them.
HawkWriteBits(u, count, data) ==
    /\ ~aborted
    /\ unit[u].data_ptr + count <= MaxWrite
    /\ unit' = [unit EXCEPT ![u] = hawk_write_bits(unit[u], count, data)]
    /\ lastOp' = [Op("hawk_write_bits", u) EXCEPT
                     !.count = count,
                     !.bits = DataBits(data, count),
                     !.mark = unit'[u].data_ptr]
    /\ UNCHANGED <<seek_event, rotation_event, seek_scheduled, rot_scheduled,
                   now, aborted>>

(***************************************************************************)
(* Specifications.  The state space of two drives under every operation    *)
(* and every input is the product of what each can do, so three            *)
(* specifications over the same actions each take a part of it.            *)
(***************************************************************************)
\* Requests of drive 0 range over every input; those of the other drives
\* over a valid and an invalid cylinder, one head, and a store that fails
\* at once or not at all.
SeekCyls(u) == IF u = 0 THEN CylInputs ELSE {0, HAWK_NUM_CYLINDERS}
SeekHeads(u) == IF u = 0 THEN Heads ELSE {0}
SeekIo(u) == IF u = 0 THEN IoOutcomes ELSE {0, HAWK_SECTS_PER_TRK}

\* Spec: the seek machine of all drives (hawk_seek, hawk_rtz and the
\* firings of the seek event).
Next ==
    \/ \E u \in Units : \E cyl \in SeekCyls(u), head \in SeekHeads(u),
          io \in SeekIo(u) : HawkSeek(u, cyl, head, io)
    \/ \E u \in Units : \E io \in SeekIo(u) : HawkRtz(u, io)
    \/ \E i \in Units : SeekEventFires(i)

Spec == Init /\ [][Next]_vars

\* The scheduler delivers every event it was handed.
FairSpec == Spec /\ \A i \in Units : WF_vars(SeekEventFires(i))

\* DriveSpec: every operation, on drive 1 alone, with the smaller set of
\* seek requests.
DriveUnits == {1}

DriveNext ==
    \/ \E u \in DriveUnits : \E cyl \in SeekCyls(u), head \in SeekHeads(u),
          io \in SeekIo(u) : HawkSeek(u, cyl, head, io)
    \/ \E u \in DriveUnits : \E io \in SeekIo(u) : HawkRtz(u, io)
    \/ \E i \in DriveUnits : SeekEventFires(i)
    \/ \E u \in DriveUnits, t \in UpdateTimes : HawkUpdate(u, t)
    \/ \E u \in DriveUnits, t \in UpdateTimes : HawkRemainingBits(u, t)
    \/ \E u \in DriveUnits, sector \in SectorInputs :
          HawkWaitSector(u, sector)
    \/ \E k \in DOMAIN rot_scheduled : RotationEventFires(k)
    \/ Tick

DriveSpec == Init /\ [][DriveNext]_vars

\* RotationSpec: the rotation operations of all drives (hawk_update,
\* hawk_remaining_bits, hawk_wait_sector, the firings of the rotation
\* event) as the clock advances.
RotationNext ==
    \/ \E u \in Units, t \in UpdateTimes : HawkUpdate(u, t)
    \/ \E u \in Units, t \in UpdateTimes : HawkRemainingBits(u, t)
    \/ \E u \in Units, sector \in SectorInputs : HawkWaitSector(u, sector)
    \/ \E k \in DOMAIN rot_scheduled : RotationEventFires(k)
    \/ Tick

RotationSpec == Init /\ [][RotationNext]_vars

\* TrackSpec: what the callers of this file can do to the track buffer and
\* the cursor of drive 1: seeks (the smaller set of requests), their
\* completion, hawk_rewind and hawk_read_bits.
TrackUnits == {1}
RewindCounts == {1, HAWK_RAW_TRACK_BITS}
ReadCounts == {1, 2}
\* The out-of-array values a read of unit u can meet: none matters while
\* the two cells at the cursor are inside the array.
OobChoices(u) ==
    IF unit[u].data_ptr + 1 \in TrackCells /\ unit[u].data_ptr \in TrackCells
    THEN {[n \in 1..2 |-> 0]}
    ELSE OobReads

TrackNext ==
    \/ \E u \in TrackUnits : \E cyl \in SeekCyls(u), head \in SeekHeads(u),
          io \in SeekIo(u) : HawkSeek(u, cyl, head, io)
    \/ \E u \in TrackUnits : \E io \in SeekIo(u) : HawkRtz(u, io)
    \/ \E i \in TrackUnits : SeekEventFires(i)
    \/ \E u \in TrackUnits, count \in RewindCounts : HawkRewind(u, count)
    \/ \E u \in TrackUnits : \E count \in ReadCounts, oob \in OobChoices(u) :
          HawkReadBits(u, count, oob)

TrackSpec == Init /\ [][TrackNext]_vars

\* BitsSpec: the bit-stream primitives one call at a time, on the first
\* cells of the track buffer of drive 1, with a rewind that does not wrap.
BitCounts == 1..3
WriteCounts == 0..3
WriteData == {<<165>>, <<90>>}
BitRewinds(u) == {c \in BitCounts : c <= unit[u].data_ptr}

BitsNext ==
    \/ \E u \in TrackUnits, count \in BitCounts, val \in 0..1 :
          HawkSetBits(u, count, val)
    \/ \E u \in TrackUnits, count \in WriteCounts, data \in WriteData :
          HawkWriteBits(u, count, data)
    \/ \E u \in TrackUnits : \E count \in BitRewinds(u) :
          HawkRewind(u, count)
    \/ \E u \in TrackUnits : \E count \in BitCounts, oob \in OobChoices(u) :
          HawkReadBits(u, count, oob)

BitsSpec == Init /\ [][BitsNext]_vars

(***************************************************************************)
(* Predicates shared by the properties.                                    *)
(***************************************************************************)
RtzStep(u) == \E io \in IoOutcomes : HawkRtz(u, io)

SeekComplete(u) == unit[u].on_cyl = 1 /\ unit[u].seeking = 0

AfterRtz(u) == lastOp.op = "hawk_rtz" /\ lastOp.unit = u

(***************************************************************************)
(* C1.  Whenever a scheduled seek event fires, the unit the seek was       *)
(* issued on has on_cyl = 1 and seeking = 0 in the resulting state.        *)
(* Violated: the one seek_event holds the unit of the latest hawk_seek,    *)
(* so the firing asked for by drive 0 completes drive 1 when drive 1 has   *)
(* issued a seek in between.                                               *)
(***************************************************************************)
C1_FiredSeekCompletesItsUnit ==
    [][\A i \in Units :
          SeekEventFires(i) => (unit'[i].on_cyl = 1 /\ unit'[i].seeking = 0)
      ]_vars

(***************************************************************************)
(* C2.  The state right after hawk_rtz has seek_error = 0, fault = 0,      *)
(* current_track = 0 and a seek pending for this unit (seeking = 1, a seek *)
(* event scheduled for it), and that seek later completes.                 *)
(* Violated in its last part: a seek of another drive redirects the        *)
(* pending firing, and the unit stays seeking for ever.                    *)
(***************************************************************************)
C2_RtzClearsAndSeekCompletes ==
    \A u \in Units :
        /\ [](AfterRtz(u) =>
                /\ unit[u].seek_error = 0
                /\ unit[u].fault = 0
                /\ unit[u].current_track = 0
                /\ unit[u].seeking = 1
                /\ seek_scheduled[u] > 0
                /\ seek_event.unit = u)
        /\ (AfterRtz(u) ~> (SeekComplete(u) \/ aborted))

(***************************************************************************)
(* C3.  At most one seek event is scheduled and not yet fired per unit.    *)
(* Violated: hawk_rtz on a unit whose seek is pending clears seeking and   *)
(* hawk_seek schedules the event again.                                    *)
(***************************************************************************)
C3_OneSeekEventPerUnit == \A u \in Units : seek_scheduled[u] <= 1

(***************************************************************************)
(* C4.  Every operation and every event completion affects only the unit   *)
(* it was issued for: the firing of a seek event asked for by unit i       *)
(* changes no other unit.                                                  *)
(* Violated: the firing is applied to seek_event.unit, the unit of the     *)
(* latest hawk_seek.                                                       *)
(***************************************************************************)
C4_CompletionStaysOnItsUnit ==
    [][\A i \in Units :
          /\ SeekEventFires(i) =>
                \A v \in Units \ {i} : unit'[v] = unit[v]
          /\ (\E cyl \in CylInputs, head \in Heads, io \in IoOutcomes :
                 HawkSeek(i, cyl, head, io)) =>
                \A v \in Units \ {i} : unit'[v] = unit[v]
      ]_vars

(***************************************************************************)
(* C5.  hawk_seek with cyl >= HAWK_NUM_CYLINDERS on a non-seeking unit     *)
(* sets addr_int = 1, schedules no event and leaves seeking = 1; the unit  *)
(* then stays as it is, seeking = 1, until hawk_rtz is called.             *)
(* Violated in its last part: a firing left over from an earlier seek      *)
(* (hawk_rtz during a pending seek, or a seek of another drive) clears     *)
(* seeking.                                                                *)
(***************************************************************************)
AddrFaultLatched(u) == unit[u].addr_int = 1 /\ unit[u].seeking = 1

C5_OutOfRangeSeekLatches ==
    [][\A u \in Units :
          /\ \A cyl \in CylInputs, head \in Heads, io \in IoOutcomes :
                (unit[u].seeking = 0 /\ cyl >= HAWK_NUM_CYLINDERS
                 /\ lastOp'.unit = u /\ HawkSeek(u, cyl, head, io)) =>
                    /\ unit'[u].addr_int = 1
                    /\ unit'[u].seeking = 1
                    /\ seek_scheduled' = seek_scheduled
          /\ AddrFaultLatched(u) => (unit'[u] = unit[u] \/ RtzStep(u))
      ]_vars

(***************************************************************************)
(* C6.  An in-range hawk_seek on a non-seeking unit schedules the seek     *)
(* event: after 7.5 ms with no error flag set when the track was           *)
(* materialized, after 500 ms when it was not, and then seek_error of the  *)
(* unit is not set before the event fires.  When the event fires after     *)
(* that seek, on_cyl = 1 and current_track = cyl * 2 + head, with          *)
(* seek_error unchanged in the first case and seek_error = 1 in the        *)
(* second.                                                                 *)
(***************************************************************************)
AfterSeek(u, res) ==
    lastOp.op = "hawk_seek" /\ lastOp.unit = u /\ lastOp.res = res

C6_SeekScenarios ==
    [][\A u \in Units :
          /\ (lastOp'.op = "hawk_seek" /\ lastOp'.unit = u
              /\ unit[u].seeking = 0
              /\ lastOp'.cyl < HAWK_NUM_CYLINDERS) =>
                /\ seek_scheduled'[u] = seek_scheduled[u] + 1
                /\ seek_event'.unit = u
                /\ unit'[u].current_track = lastOp'.cyl * 2 + lastOp'.head
                /\ unit'[u].seek_error = unit[u].seek_error
                /\ unit'[u].fault = unit[u].fault
                /\ unit'[u].addr_int = 0
                /\ \/ /\ lastOp'.res = "ok"
                      /\ seek_event'.delta_ns = 7500000
                      /\ seek_event'.seek_error = 0
                   \/ /\ lastOp'.res = "seek_error"
                      /\ seek_event'.delta_ns = 500000000
                      /\ seek_event'.seek_error = 1
          /\ (AfterSeek(u, "ok") /\ \E i \in Units : SeekEventFires(i)) =>
                /\ unit'[u].on_cyl = 1
                /\ unit'[u].seeking = 0
                /\ unit'[u].seek_error = unit[u].seek_error
                /\ unit'[u].current_track = unit[u].current_track
          /\ (AfterSeek(u, "seek_error")
              /\ \E i \in Units : SeekEventFires(i)) =>
                /\ unit'[u].on_cyl = 1
                /\ unit'[u].seeking = 0
                /\ unit'[u].seek_error = 1
                /\ unit'[u].current_track = unit[u].current_track
      ]_vars

\* The event of a seek to cylinder 1, head 1 whose materialization failed
\* has fired: the error is latched and the unit is on cylinder.
C6_Witness ==
    /\ lastOp.op = "hawk_seek_callback"
    /\ seek_event.delta_ns = 500000000
    /\ unit[lastOp.unit].current_track = 3
    /\ unit[lastOp.unit].seek_error = 1
    /\ unit[lastOp.unit].on_cyl = 1

RotationPending == Len(rot_scheduled) > 0

C8_OneRotationEvent ==
    [][/\ Len(rot_scheduled') <= 1
       /\ RotationPending' <=> (rotation_event'.in_process = 1)
       /\ \A u \in Units, sector \in SectorInputs :
             HawkWaitSector(u, sector) =>
                IF RotationPending
                THEN aborted' /\ rot_scheduled' = rot_scheduled
                ELSE ~aborted' /\ Len(rot_scheduled') = 1
                     /\ rot_scheduled'[1].unit = u
       /\ (\E k \in DOMAIN rot_scheduled : RotationEventFires(k)) =>
             ~RotationPending'
      ]_vars

\* hawk_wait_sector was called with an event pending: the process has
\* aborted and the one event is all there is.
C8_Witness ==
    /\ aborted
    /\ lastOp.op = "hawk_wait_sector"
    /\ lastOp.res = "abort"
    /\ Len(rot_scheduled) = 1

(***************************************************************************)
(* C9.  hawk_update(unit, T) and hawk_update(unit, T + HAWK_ROTATION_NS)   *)
(* produce the same head_pos and the same sector_addr, and hawk_update     *)
(* changes no other field of the unit and nothing else.                    *)
(***************************************************************************)
C9_UpdatePeriodic ==
    [][\A u \in Units, t \in UpdateTimes :
          HawkUpdate(u, t) =>
             LET later == hawk_update_body(unit[u], t + HAWK_ROTATION_NS)
             IN /\ unit'[u].head_pos = later.head_pos
                /\ unit'[u].sector_addr = later.sector_addr
                /\ unit'[u] = [unit[u] EXCEPT
                                  !.head_pos = unit'[u].head_pos,
                                  !.sector_addr = unit'[u].sector_addr]
                /\ \A v \in Units \ {u} : unit'[v] = unit[v]
                /\ UNCHANGED <<seek_event, rotation_event, seek_scheduled,
                               rot_scheduled, now, aborted>>
      ]_vars

\* hawk_update has run on a unit whose head is in the last sector.
C9_Witness ==
    /\ lastOp.op = "hawk_update"
    /\ unit[lastOp.unit].sector_addr = HAWK_SECTS_PER_TRK - 1
    /\ unit[lastOp.unit].head_pos =
          hawk_update_body(unit[lastOp.unit], now).head_pos

(***************************************************************************)
(* C10.  For every current time and every target sector below              *)
(* HAWK_SECTS_PER_TRK, the delay hawk_wait_sector schedules is the target  *)
(* phase minus the current phase wrapped into [0, HAWK_ROTATION_NS): never *)
(* negative, never a full rotation, and 0 exactly when the head is at the  *)
(* start of the target sector.                                             *)
(***************************************************************************)
C10_WaitDelayWrapped ==
    [][\A u \in Units, sector \in Sectors :
          (HawkWaitSector(u, sector) /\ ~aborted') =>
             LET delay == rotation_event'.delta_ns
                 current == (now + unit[u].rotation_offset) % HAWK_ROTATION_NS
                 target == HAWK_SECTOR_NS * sector
             IN /\ delay >= 0
                /\ delay < HAWK_ROTATION_NS
                /\ (current + delay) % HAWK_ROTATION_NS = target
                /\ (delay = 0) <=> (current = target)
                /\ rot_scheduled'[1].fire_at = now + delay
      ]_vars

\* A wait was armed for a sector whose start the head has passed in this
\* rotation: the delay wraps into the next rotation.
C10_Witness ==
    /\ lastOp.op = "hawk_wait_sector"
    /\ lastOp.res = "armed"
    /\ rotation_event.in_process = 1
    /\ rotation_event.delta_ns > 0
    /\ LET r == unit[lastOp.unit]
       IN Rotation(r, now) + rotation_event.delta_ns = HAWK_ROTATION_NS

(***************************************************************************)
(* C11.  When a rotation event fires, the unit that requested the wait has *)
(* its rotation recomputed at the fire time and its cursor set to that     *)
(* head position (data_ptr = head_pos), in_process is cleared, and the     *)
(* controller is notified for that unit; a wait with delta = 0 that fires  *)
(* at the time of the request leaves the cursor at the head position of    *)
(* the request time, the start of the sector waited for.                   *)
(***************************************************************************)
C11_RotationFiringSnapsCursor ==
    [][\A k \in DOMAIN rot_scheduled :
          RotationEventFires(k) =>
             LET i == rot_scheduled[k].unit
                 rotation == (now + unit[i].rotation_offset)
                                % HAWK_ROTATION_NS
             IN /\ unit'[i].head_pos = rotation * HAWK_BIT_NS
                /\ unit'[i].sector_addr = rotation \div HAWK_SECTOR_NS
                /\ unit'[i].data_ptr = unit'[i].head_pos
                /\ unit'[i] = [unit[i] EXCEPT
                                  !.head_pos = unit'[i].head_pos,
                                  !.sector_addr = unit'[i].sector_addr,
                                  !.data_ptr = unit'[i].head_pos]
                /\ \A v \in Units \ {i} : unit'[v] = unit[v]
                /\ rotation_event'.in_process = 0
                /\ lastOp'.op = "hawk_rotation_event_cb"
                /\ lastOp'.unit = i
                /\ (rotation_event.delta_ns = 0
                    /\ now = rot_scheduled[k].fire_at) =>
                      /\ rotation % HAWK_SECTOR_NS = 0
                      /\ unit'[i].data_ptr =
                            Rotation(unit[i], rot_scheduled[k].fire_at)
                               * HAWK_BIT_NS
      ]_vars

\* A wait with delta = 0 has fired at the time of its request, away from
\* the start of the track: the cursor has jumped to the head.
C11_Witness ==
    /\ lastOp.op = "hawk_rotation_event_cb"
    /\ rotation_event.delta_ns = 0
    /\ rotation_event.in_process = 0
    /\ unit[lastOp.unit].data_ptr = unit[lastOp.unit].head_pos
    /\ unit[lastOp.unit].data_ptr =
          Rotation(unit[lastOp.unit], now) * HAWK_BIT_NS
    /\ unit[lastOp.unit].data_ptr > 0

(***************************************************************************)
(* C12.  In every reachable state the cursor data_ptr lies in              *)
(* [0, HAWK_RAW_TRACK_BITS).                                               *)
(* Violated: hawk_read_bits advances the cursor without wrapping it, so a  *)
(* read that starts on the last cell leaves the cursor past the end.       *)
(***************************************************************************)
C12_CursorInRange ==
    \A u \in Units :
        unit[u].data_ptr >= 0 /\ unit[u].data_ptr < HAWK_RAW_TRACK_BITS

(***************************************************************************)
(* C13.  hawk_write_bits(unit, count, data) with count >= 1 stores the     *)
(* first count bits of data, most significant bit of each byte first,      *)
(* into the cells starting at the cursor, advances data_ptr by exactly     *)
(* count, and leaves every other cell unchanged.                           *)
(* Violated: "if (count--) return" leaves the loop at once when count is   *)
(* not 0, so nothing is stored and the cursor does not move.               *)
(***************************************************************************)
C13_WriteBitsStoresCount ==
    [][\A u \in TrackUnits, count \in WriteCounts \ {0}, data \in WriteData :
          HawkWriteBits(u, count, data) =>
             LET p == unit[u].data_ptr
                 written == p..(p + count - 1)
             IN /\ unit'[u].data_ptr = p + count
                /\ \A k \in 1..count :
                      Cell(unit'[u].current_track_data, p + k - 1)
                         = DataBits(data, count)[k]
                /\ \A c \in TrackCells \ written :
                      Cell(unit'[u].current_track_data, c)
                         = Cell(unit[u].current_track_data, c)
      ]_vars

(***************************************************************************)
(* C14.  After N bits are written at the cursor (hawk_write_bits or        *)
(* hawk_set_bits), hawk_rewind(unit, N) followed by                        *)
(* hawk_read_bits(unit, N, dest) returns those N bits packed most          *)
(* significant bit first into dest, and leaves the cursor where it was     *)
(* after the write.                                                        *)
(* Violated: "if (--count)" ends hawk_read_bits after one cell when N is   *)
(* not 1 and after two cells when N is 1.                                  *)
(***************************************************************************)
\* the bytes that hold the bits of "bits", most significant bit first
PackBits(bits) ==
    LET RECURSIVE ByteOf(_, _)
        ByteOf(j, i) ==
            IF i > 8 THEN 0
            ELSE LET k == 8 * (j - 1) + i
                 IN (IF k <= Len(bits) THEN bits[k] * Pow2(8 - i) ELSE 0)
                    + ByteOf(j, i + 1)
    IN [j \in 1..((Len(bits) + 7) \div 8) |-> ByteOf(j, 1)]

\* the last two calls on unit u were a write of n bits and hawk_rewind(n)
RewoundAfterWrite(u, n) ==
    /\ lastOp.op = "hawk_rewind"
    /\ lastOp.unit = u
    /\ lastOp.count = n
    /\ Len(lastOp.bits) = n

C14_RewindReadReturnsWritten ==
    [][\A u \in TrackUnits, count \in BitCounts, oob \in OobReads :
          (RewoundAfterWrite(u, count) /\ HawkReadBits(u, count, oob)) =>
             /\ lastOp'.dest = PackBits(lastOp.bits)
             /\ unit'[u].data_ptr = lastOp.mark
             /\ unit'[u].data_ptr = unit[u].data_ptr + count
      ]_vars

(***************************************************************************)
(* C15.  After a successful track materialization for an in-range          *)
(* (cylinder, head), for every sector s the 32 cells at offset             *)
(* s * HAWK_RAW_SECTOR_BITS + HAWK_GAP_BITS + HAWK_SYNC_BITS hold, most    *)
(* significant bit first, the 16-bit word (cylinder<<8 | head<<4 | s)      *)
(* followed by its 16-bit complement.                                      *)
(* Violated: hawk_write_bits stores nothing for a count of 32, and the     *)
(* gap and the sync that follow are laid over the place of the address.    *)
(***************************************************************************)
\* hawk_seek or hawk_rtz on unit u has just materialized a track
Materialized(u) ==
    /\ lastOp.op \in {"hawk_seek", "hawk_rtz"}
    /\ lastOp.unit = u
    /\ lastOp.res = "ok"

\* bit k, counted from 1 at the most significant end, of the w-bit value v
BitOf(v, w, k) == (v \div Pow2(w - k)) % 2

C15_AddressFieldEncoded ==
    \A u \in Units :
        Materialized(u) =>
            \A s \in Sectors :
                LET addr == lastOp.cyl * 256 + lastOp.head * 16 + s
                    at == s * HAWK_RAW_SECTOR_BITS + HAWK_GAP_BITS
                          + HAWK_SYNC_BITS
                IN \A k \in 1..16 :
                      /\ Cell(unit[u].current_track_data, at + k - 1)
                            = BitOf(addr, 16, k)
                      /\ Cell(unit[u].current_track_data, at + 16 + k - 1)
                            = BitOf(65535 - addr, 16, k)

(***************************************************************************)
(* C16.  After a successful track materialization, for every sector s the  *)
(* data field of sector s (the HAWK_SECTOR_BYTES * 8 cells after the       *)
(* second sync of the sector) decodes, most significant bit first, to the  *)
(* HAWK_SECTOR_BYTES bytes of the backing store at offset                  *)
(* ((cylinder<<5) | (head<<4) | s) * HAWK_SECTOR_BYTES.                    *)
(* Violated: hawk_write_bits stores nothing for a count of                 *)
(* HAWK_SECTOR_BYTES * 8, so the cells keep what they held.                *)
(***************************************************************************)
C16_DataFieldEncoded ==
    \A u \in Units :
        Materialized(u) =>
            \A s \in Sectors :
                LET offset == BitOr(BitOr(Shl(lastOp.cyl, 5),
                                          Shl(lastOp.head, 4)), s)
                                 * HAWK_SECTOR_BYTES
                    at == s * HAWK_RAW_SECTOR_BITS
                          + 2 * (HAWK_GAP_BITS + HAWK_SYNC_BITS) + 32
                IN \A j \in 1..HAWK_SECTOR_BYTES, k \in 1..8 :
                      Cell(unit[u].current_track_data,
                           at + 8 * (j - 1) + k - 1)
                         = BitOf(StoreByte(u, offset + j - 1), 8, k)

(***************************************************************************)
(* C17.  hawk_seek sets addr_ack = 1 only when the cylinder is in range    *)
(* and the track materialization succeeds: after a seek whose              *)
(* materialization fails or whose cylinder is out of range, addr_ack = 0.  *)
(* Violated: addr_ack = 1 is set after the materialization whatever it     *)
(* returned.                                                               *)
(***************************************************************************)
C17_AckOnlyOnSuccess ==
    \A u \in Units :
        (lastOp.op = "hawk_seek" /\ lastOp.unit = u
         /\ lastOp.res \in {"seek_error", "addr_int"}) =>
            unit[u].addr_ack = 0

(***************************************************************************)
(* C18.  Track materialization fails atomically: when a backing-store      *)
(* read fails during hawk_buffer_track, the track buffer is not left       *)
(* partly rewritten; it holds either what it held before the call or the   *)
(* whole of the track asked for.                                           *)
(* Violated: the sectors before the failing one, and the header of the     *)
(* failing one, have been written when hawk_buffer_track returns 0, and    *)
(* nothing undoes or marks them.                                           *)
(***************************************************************************)
\* the track buffer a materialization of (cyl, head) without failure gives
WholeTrack(r, u, cyl, head) ==
    hawk_buffer_track(r, u, cyl, head, HAWK_SECTS_PER_TRK).r
        .current_track_data

C18_FailedMaterializationAtomic ==
    [][\A u \in Units :
          (lastOp'.op = "hawk_seek" /\ lastOp'.unit = u
           /\ lastOp'.res = "seek_error" /\ unit[u].seeking = 0) =>
              \/ unit'[u].current_track_data = unit[u].current_track_data
              \/ unit'[u].current_track_data =
                    WholeTrack(unit[u], u, lastOp'.cyl, lastOp'.head)
      ]_vars

(***************************************************************************)
(* C19.  hawk_seek on a unit with seeking = 1 is a no-op: it changes no    *)
(* field of the unit, does not touch the delay, the error flag or the      *)
(* unit of the pending seek event, and schedules nothing.                  *)
(***************************************************************************)
C19_SeekWhileSeekingNoOp ==
    [][\A u \in Units :
          (lastOp'.op = "hawk_seek" /\ lastOp'.unit = u
           /\ unit[u].seeking = 1) =>
              /\ unit' = unit
              /\ seek_event' = seek_event
              /\ seek_scheduled' = seek_scheduled
              /\ UNCHANGED <<rotation_event, rot_scheduled, now, aborted>>
      ]_vars

\* hawk_seek has returned at once on a unit whose seek event is pending.
C19_Witness ==
    /\ lastOp.op = "hawk_seek"
    /\ lastOp.res = "noop"
    /\ unit[lastOp.unit].seeking = 1
    /\ seek_scheduled[lastOp.unit] > 0
    /\ seek_event.unit = lastOp.unit

(***************************************************************************)
(* C20.  For a unit created with all flags clear, seeking and on_cyl are   *)
(* never both 1, under every interleaving of hawk_seek, hawk_rtz,          *)
(* hawk_wait_sector and the firings of the seek and rotation events.       *)
(***************************************************************************)
C20_NeverSeekingOnCyl ==
    \A u \in Units : ~(unit[u].seeking = 1 /\ unit[u].on_cyl = 1)

\* An event left over from a seek that hawk_rtz overtook has fired on a
\* unit that an out-of-range seek had left seeking.
C20_Witness ==
    /\ lastOp.op = "hawk_seek_callback"
    /\ unit[lastOp.unit].addr_int = 1
    /\ unit[lastOp.unit].on_cyl = 1
    /\ unit[lastOp.unit].seeking = 0

====
